---- MODULE Spec2Model ----
(***************************************************************************)
(* Model of the Solana wallet manager CLI (src/index.js).                  *)
(*                                                                         *)
(*   SpecSelect  : the CLI callbacks' selector parsing                     *)
(*                 (parseWalletIndices) and the target selection every     *)
(*                 command performs on the loaded wallet store.            *)
(*   SpecBatch   : send-to-all-sol / send-to-all-token (sendSolToAll,      *)
(*                 sendTokenToAll): batching and the per-batch loop.       *)
(*   SpecCollect : collect-sol (collectSol): the per-wallet loop.          *)
(*                                                                         *)
(* A selector string is a sequence of one-character strings.  A wallet     *)
(* record is abstracted to [name |-> k]: the k-th record of the store.     *)
(***************************************************************************)
EXTENDS Integers, Sequences, FiniteSets, TLC

VARIABLES
    \* ---- command line and wallet store
    cmd,            \* the command being run
    selector,       \* options.wallets: [given |-> BOOLEAN, str |-> Seq(Char)]
    wallets,        \* loadWallets(): the wallet store, a sequence of records
    walletIndices,  \* result of parseWalletIndices
    targetWallets,  \* targetWallets / sourceWallets / walletsToCheck
    pc,             \* position of the running command
    result,         \* how the command's prologue ended
    \* ---- send-to-all-sol / send-to-all-token
    kind,           \* "sol" | "token"
    walletBatches,  \* the batches built by the slicing loop
    batchIndex,     \* 0-based index of the for loop over walletBatches
    j,              \* 1-based position inside walletBatch of the account being resolved
    destinationAccounts, \* wallets of the current batch whose account is resolved
    resolved,       \* wallets whose receiving account was resolved during the run
    issued,         \* wallets for which transfer(...) has been called
    pending,        \* wallets whose un-awaited transfer(...) promise is not settled
    awaiting,       \* batch whose sendAndConfirmTransaction is awaited, or -1
    attempts,       \* attempts[b]: times the loop body was entered for batch b
    submissions,    \* submissions[b]: transactions handed to the network for batch b
    outcomes,       \* per-batch console reports, in order
    \* ---- collect-sol
    leaveAmount,    \* --leave, in micro-SOL
    rentExemptBalance, \* getMinimumBalanceForRentExemption(0)
    balances,       \* network state: balances[k] lamports of wallet k
    walletPos,      \* 1-based position of the for-of loop over sourceWallets
    collectLog,     \* per-wallet reports, in order
    mainReceived,   \* lamports received by the main wallet
    \* ---- import and create
    file,           \* the import file: [kind |-> ..., records |-> Seq(raw record)]
    overwrite,      \* options.overwrite
    fixPublicKeys,  \* options.fixPublicKeys
    keepAnswer,     \* reply to "Do you want to keep existing wallets?", or "none"
    processedWallets, \* the records that passed validation, in file order
    diagnostics,    \* diagnostics[i]: what was reported for file record i
    mergeTrace,     \* one entry per processed wallet the merge loop handled
    importCount,    \* importCount of the merge loop
    storeWrites,    \* number of times the store file was written
    createCount,    \* create: the count argument
    createPrefix,   \* create: options.prefix
    \* ---- environment of the send and collect commands
    mainKey,        \* MAIN_WALLET_PRIVATE_KEY: "ok" | "missing" | "undecodable"
    exitCode,       \* process exit code, -1 while the process runs
    storeReads,     \* number of times the store file was read
    \* ---- the store file and the terminal
    storeFile,      \* "ok": the file holds wallets as JSON | "missing" | "corrupt"
    listOutput      \* what the last run of list printed

vars == <<cmd, selector, wallets, walletIndices, targetWallets, pc, result,
          kind, walletBatches, batchIndex, j, destinationAccounts, resolved,
          issued, pending, awaiting, attempts, submissions, outcomes,
          leaveAmount, rentExemptBalance, balances, walletPos, collectLog,
          mainReceived, file, overwrite, fixPublicKeys, keepAnswer,
          processedWallets, diagnostics, mergeTrace, importCount, storeWrites,
          createCount, createPrefix, mainKey, exitCode, storeReads,
          storeFile, listOutput>>

cliVars == <<cmd, selector, wallets, walletIndices, result>>
batchVars == <<kind, walletBatches, batchIndex, j, destinationAccounts, resolved,
               issued, pending, awaiting, attempts, submissions, outcomes>>
collectVars == <<leaveAmount, rentExemptBalance, balances, walletPos, collectLog,
                 mainReceived>>
importVars == <<file, overwrite, fixPublicKeys, keepAnswer, processedWallets,
                diagnostics, mergeTrace, importCount, storeWrites,
                createCount, createPrefix>>
envVars == <<mainKey, exitCode, storeReads>>
fileVars == <<storeFile, listOutput>>

-----------------------------------------------------------------------------
(* Bounds of the model *)

MaxLen == 3          \* longest enumerated selector string
MaxWallets == 3      \* largest wallet store of SpecSelect
MaxSolTargets == 23  \* most targets of a send-to-all-sol run
MaxTokenTargets == 11 \* most targets of a send-to-all-token run
MaxCollectWallets == 2 \* most source wallets of a collect-sol run
MaxDelta == 2        \* balances range over threshold - MaxDelta .. threshold + MaxDelta

-----------------------------------------------------------------------------
(* Generic helpers *)

Min(a, b) == IF a < b THEN a ELSE b

Range(s) == {s[i] : i \in DOMAIN s}

RECURSIVE Flatten(_)
Flatten(ss) == IF ss = <<>> THEN <<>> ELSE Head(ss) \o Flatten(Tail(ss))

RECURSIVE SortedSeqOfSet(_)
SortedSeqOfSet(S) ==
    IF S = {} THEN <<>>
    ELSE LET m == CHOOSE x \in S : \A y \in S : x <= y
         IN <<m>> \o SortedSeqOfSet(S \ {m})

-----------------------------------------------------------------------------
(* JavaScript string primitives used by parseWalletIndices *)

Digits == {"0", "1", "2", "3", "4", "5", "6", "7", "8", "9"}

DigitVal(c) ==
    CASE c = "0" -> 0 [] c = "1" -> 1 [] c = "2" -> 2 [] c = "3" -> 3
      [] c = "4" -> 4 [] c = "5" -> 5 [] c = "6" -> 6 [] c = "7" -> 7
      [] c = "8" -> 8 [] c = "9" -> 9

IsWhite(c) == c = " "

\* String.prototype.includes for a one-character needle
includes(s, c) == \E i \in DOMAIN s : s[i] = c

\* String.prototype.split for a one-character separator: "".split(",") is [""]
RECURSIVE split(_, _)
split(s, sep) ==
    IF includes(s, sep)
    THEN LET i == CHOOSE k \in DOMAIN s :
                      s[k] = sep /\ \A m \in 1..(k - 1) : s[m] # sep
         IN <<SubSeq(s, 1, i - 1)>> \o split(SubSeq(s, i + 1, Len(s)), sep)
    ELSE <<s>>

RECURSIVE TrimLeft(_)
TrimLeft(s) ==
    IF s # <<>> /\ IsWhite(Head(s)) THEN TrimLeft(Tail(s)) ELSE s

RECURSIVE TrimRight(_)
TrimRight(s) ==
    IF s # <<>> /\ IsWhite(s[Len(s)])
    THEN TrimRight(SubSeq(s, 1, Len(s) - 1))
    ELSE s

\* String.prototype.trim
trim(s) == TrimRight(TrimLeft(s))

\* the longest leading run of decimal digits
RECURSIVE DigitPrefix(_)
DigitPrefix(s) ==
    IF s # <<>> /\ Head(s) \in Digits
    THEN <<Head(s)>> \o DigitPrefix(Tail(s))
    ELSE <<>>

RECURSIVE DecimalValue(_)
DecimalValue(ds) ==
    IF ds = <<>> THEN 0
    ELSE DecimalValue(SubSeq(ds, 1, Len(ds) - 1)) * 10 + DigitVal(ds[Len(ds)])

NaN == [nan |-> TRUE, val |-> 0]

isNaN(x) == x.nan

\* parseInt(string): skips leading white space, reads an optional sign and
\* then the longest run of digits; whatever follows the digits is ignored;
\* no digit at all gives NaN.  (The hexadecimal prefix needs the letter x,
\* which is not in the alphabet of the enumerated selectors.)
parseInt(s) ==
    LET t == TrimLeft(s)
        signed == t # <<>> /\ Head(t) \in {"+", "-"}
        body == IF signed THEN Tail(t) ELSE t
        ds == DigitPrefix(body)
    IN IF ds = <<>> THEN NaN
       ELSE [nan |-> FALSE,
             val |-> IF signed /\ Head(t) = "-"
                     THEN 0 - DecimalValue(ds) ELSE DecimalValue(ds)]

-----------------------------------------------------------------------------
(* parseWalletIndices *)

\* the indices one comma-separated part pushes, in push order
PartIndices(part) ==
    IF includes(part, "-")
    THEN LET pieces == split(part, "-")
             start == parseInt(trim(pieces[1]))
             end == parseInt(trim(pieces[2]))
         IN IF ~isNaN(start) /\ ~isNaN(end)
            THEN [i \in 1..(end.val - start.val + 1) |-> start.val + i - 1]
            ELSE <<>>
    ELSE LET index == parseInt(trim(part))
         IN IF ~isNaN(index) THEN <<index.val>> ELSE <<>>

\* [...new Set(indices)]: first occurrences, in insertion order
RECURSIVE Dedup(_)
Dedup(s) ==
    IF s = <<>> THEN <<>>
    ELSE LET front == SubSeq(s, 1, Len(s) - 1)
             last == s[Len(s)]
         IN IF last \in Range(front) THEN Dedup(front)
            ELSE Append(Dedup(front), last)

\* insertion of x into an ascending sequence
RECURSIVE Insert(_, _)
Insert(x, s) ==
    IF s = <<>> THEN <<x>>
    ELSE IF x <= Head(s) THEN <<x>> \o s
    ELSE <<Head(s)>> \o Insert(x, Tail(s))

\* .sort((a, b) => a - b)
RECURSIVE SortNumeric(_)
SortNumeric(s) ==
    IF s = <<>> THEN <<>> ELSE Insert(Head(s), SortNumeric(Tail(s)))

PushedIndices(str) ==
    LET parts == split(str, ",")
    IN Flatten([p \in DOMAIN parts |-> PartIndices(parts[p])])

parseWalletIndices(walletRangeStr) ==
    IF ~walletRangeStr.given \/ walletRangeStr.str = <<>>
    THEN <<>>
    ELSE SortNumeric(Dedup(PushedIndices(walletRangeStr.str)))

-----------------------------------------------------------------------------
(* Target selection, the same expression in every command:                 *)
(*   walletIndices.length > 0                                              *)
(*     ? walletIndices.map(i => wallets[i - 1]).filter(Boolean) : wallets  *)

\* the helper with wallets[i] in place of wallets[i - 1]
MapFilter_ZeroBased(indices, store) ==
    LET inRange == SelectSeq(indices, LAMBDA i : i + 1 \in DOMAIN store)
    IN [k \in DOMAIN inRange |-> store[inRange[k] + 1]]

\* .map(i => wallets[i - 1]).filter(Boolean): wallets[i - 1] is undefined,
\* and filtered out, when i - 1 is no index of the array
MapFilter(indices, store) ==
    LET inRange == SelectSeq(indices, LAMBDA i : i \in DOMAIN store)
    IN [k \in DOMAIN inRange |-> store[inRange[k]]]

SelectWallets_NoFallback(indices, store) == MapFilter(indices, store)

SelectWallets(indices, store) ==
    IF Len(indices) > 0 THEN MapFilter(indices, store) ELSE store

-----------------------------------------------------------------------------
(* SpecSelect: a CLI callback parses the selector and the command selects  *)
(* its targets from the loaded store                                       *)

Commands == {"balance", "send-sol", "send-token", "collect-sol",
             "collect-token", "send-to-all-sol", "send-to-all-token"}

Alphabet == {"0", "1", "2", ",", "-", " ", "a"}

Str(chars) == [given |-> TRUE, str |-> chars]

Absent == [given |-> FALSE, str |-> <<>>]

ExampleSelectors ==
    { <<"1", ",", "3", ",", "5", "-", "7">>,
      <<"2", ",", "2", ",", "2">>,
      <<"3", "-", "1">>,
      <<"a", "b", "c">>,
      <<"1", "-", "2", "-", "3">>,
      <<"1", ",", "3", ",", "5", "-", "1", "0">> }

Selectors ==
    {Absent}
    \cup {Str(c) : c \in UNION {[1..n -> Alphabet] : n \in 0..MaxLen}}
    \cup {Str(c) : c \in ExampleSelectors}

\* the store holds records named 1..n, as createWallets numbers them
Stores == {[k \in 1..n |-> [name |-> k]] : n \in 0..MaxWallets}

BatchIdle ==
    /\ kind = "none" /\ walletBatches = <<>> /\ batchIndex = 0 /\ j = 0
    /\ destinationAccounts = <<>> /\ resolved = {} /\ issued = {}
    /\ pending = {} /\ awaiting = -1 /\ attempts = <<>>
    /\ submissions = <<>> /\ outcomes = <<>>

CollectIdle ==
    /\ leaveAmount = 0 /\ rentExemptBalance = 0 /\ balances = <<>>
    /\ walletPos = 0 /\ collectLog = <<>> /\ mainReceived = 0

ImportIdle ==
    /\ file = [kind |-> "none", records |-> <<>>]
    /\ overwrite = FALSE /\ fixPublicKeys = FALSE /\ keepAnswer = "none"
    /\ processedWallets = <<>> /\ diagnostics = <<>> /\ mergeTrace = <<>>
    /\ importCount = 0 /\ storeWrites = 0
    /\ createCount = 0 /\ createPrefix = ""

EnvIdle == mainKey = "ok" /\ exitCode = -1 /\ storeReads = 0

\* what the list runs have printed, one entry a run: none yet
NotListed == <<>>

FileIdle == storeFile = "ok" /\ listOutput = NotListed

InitSelect ==
    /\ cmd \in Commands
    /\ selector \in Selectors
    /\ wallets \in Stores
    /\ walletIndices = <<>>
    /\ targetWallets = <<>>
    /\ pc = "cli"
    /\ result = "none"
    /\ BatchIdle
    /\ CollectIdle
    /\ ImportIdle
    /\ EnvIdle
    /\ FileIdle

\* .action(...): const walletIndices = parseWalletIndices(options.wallets)
ParseSelector ==
    /\ pc = "cli"
    /\ walletIndices' = parseWalletIndices(selector)
    /\ pc' = "prologue"
    /\ UNCHANGED <<cmd, selector, wallets, targetWallets, result>>
    /\ UNCHANGED batchVars
    /\ UNCHANGED collectVars
    /\ UNCHANGED importVars
    /\ UNCHANGED envVars
    /\ UNCHANGED fileVars

\* variant: the records still legible in a damaged file are returned
loadWallets_Salvages(fileState, content) ==
    IF fileState = "missing" THEN <<>> ELSE content

\* loadWallets: the parsed content of the store file, [] when reading or
\* parsing it throws
loadWallets(fileState, content) ==
    IF fileState = "ok" THEN content ELSE <<>>

\* variant: only the presence of the key is checked
MainWalletLoads_PresenceOnly(key) == key # "missing"

\* getMainWallet returns a keypair: the key is set and bs58.decode and
\* Keypair.fromSecretKey accept it
MainWalletLoads(key) == key = "ok"

\* the command's prologue: the main wallet (every command but balance), the
\* store, the empty store, target selection, empty selection
CommandPrologue ==
    /\ pc = "prologue"
    /\ IF cmd # "balance" /\ ~MainWalletLoads(mainKey)
       THEN /\ exitCode' = 1
            /\ result' = "fatal"
            /\ pc' = "exited"
            /\ UNCHANGED <<targetWallets, storeReads>>
       ELSE /\ storeReads' = storeReads + 1
            /\ UNCHANGED exitCode
            /\ IF Len(loadWallets(storeFile, wallets)) = 0
               THEN /\ result' = "noWallets"
                    /\ pc' = "exit"
                    /\ UNCHANGED targetWallets
               ELSE LET selected == SelectWallets(walletIndices,
                                        loadWallets(storeFile, wallets))
                    IN /\ targetWallets' = selected
                       /\ IF cmd # "balance" /\ Len(selected) = 0
                          THEN result' = "noTargets" /\ pc' = "exit"
                          ELSE result' = "run" /\ pc' = "selected"
    /\ UNCHANGED <<cmd, selector, wallets, walletIndices, mainKey>>
    /\ UNCHANGED batchVars
    /\ UNCHANGED collectVars
    /\ UNCHANGED importVars
    /\ UNCHANGED fileVars

NextSelect == ParseSelector \/ CommandPrologue

SpecSelect == InitSelect /\ [][NextSelect]_vars

-----------------------------------------------------------------------------
(* Selector grammar of the specification: a token is well formed when,     *)
(* trimmed, it is a run of digits, or two runs of digits around one "-"    *)

AllDigits(s) == s # <<>> /\ \A i \in DOMAIN s : s[i] \in Digits

TokenNames(tok) ==
    LET t == trim(tok)
        pieces == split(t, "-")
    IN IF AllDigits(t) THEN {DecimalValue(t)}
       ELSE IF Len(pieces) = 2 /\ AllDigits(trim(pieces[1]))
                               /\ AllDigits(trim(pieces[2]))
       THEN DecimalValue(trim(pieces[1]))..DecimalValue(trim(pieces[2]))
       ELSE {}

NamedIntegers(sel) ==
    IF ~sel.given \/ sel.str = <<>> THEN {}
    ELSE LET parts == split(sel.str, ",")
         IN UNION {TokenNames(parts[p]) : p \in DOMAIN parts}

\* C9: parseWalletIndices returns the ascending duplicate-free list of
\* exactly the integers named by the well-formed tokens of the selector; a
\* token that is not well formed contributes nothing.
C9_ParseReturnsNamedIntegers ==
    pc \in {"prologue", "selected", "exit"}
        => walletIndices = SortedSeqOfSet(NamedIntegers(selector))

\* C10: a selector that parses to the empty list (absent, empty, "3-1",
\* "abc") is no explicit selection: on a non-empty store the command runs on
\* every wallet of the store, in store order.
C10_EmptySelectionMeansAllWallets ==
    pc \in {"selected", "exit"} =>
        /\ selector \in {Absent, Str(<<>>), Str(<<"3", "-", "1">>),
                         Str(<<"a", "b", "c">>)}
              => walletIndices = <<>>
        /\ (walletIndices = <<>> /\ Len(wallets) > 0)
              => (result = "run" /\ pc = "selected" /\ targetWallets = wallets)

C10_Witness ==
    /\ pc = "selected"
    /\ cmd = "collect-sol"
    /\ selector = Str(<<"3", "-", "1">>)
    /\ Len(wallets) >= 2
    /\ targetWallets = wallets

-----------------------------------------------------------------------------
(* send-to-all-sol and send-to-all-token: batching *)

MAX_WALLETS_PER_TX_SOL == 10

MAX_WALLETS_PER_TX_TOKEN == 5

MaxWalletsPerTx_Swapped(k) ==
    IF k = "sol" THEN MAX_WALLETS_PER_TX_TOKEN ELSE MAX_WALLETS_PER_TX_SOL

MaxWalletsPerTx(k) ==
    IF k = "sol" THEN MAX_WALLETS_PER_TX_SOL ELSE MAX_WALLETS_PER_TX_TOKEN

slice_ShortByOne(arr, from, to) == SubSeq(arr, from + 1, Min(to, Len(arr)) - 1)

\* Array.prototype.slice(from, to) for 0 <= from <= to: 0-based, to excluded,
\* clipped to the array's length
slice(arr, from, to) == SubSeq(arr, from + 1, Min(to, Len(arr)))

\* for (let i = 0; i < targetWallets.length; i += MAX_WALLETS_PER_TX)
\*     walletBatches.push(targetWallets.slice(i, i + MAX_WALLETS_PER_TX))
RECURSIVE BatchesFrom(_, _, _)
BatchesFrom(targets, i, max) ==
    IF i < Len(targets)
    THEN <<slice(targets, i, i + max)>> \o BatchesFrom(targets, i + max, max)
    ELSE <<>>

\* the wallets of the batch that the for loop is at
walletBatch == walletBatches[batchIndex + 1]

\* the batch (1-based) a target wallet was put in
BatchOf(w) == CHOOSE b \in DOMAIN walletBatches : w \in Range(walletBatches[b])

TransfersIssuedAt_Interleaved(pos, batch) == {batch[pos]}

\* sendTokenToAll calls transfer(...) in a second loop, entered only when the
\* first loop has resolved the account of every wallet of the batch
TransfersIssuedAt(pos, batch) ==
    IF pos = Len(batch) THEN Range(batch) ELSE {}

Report(b, status) == [batch |-> b, status |-> status]

-----------------------------------------------------------------------------
(* SpecBatch: sendSolToAll / sendTokenToAll after target selection *)

TargetLists(n) == {[k \in 1..m |-> [name |-> k]] : m \in 1..n}

InitBatch ==
    /\ kind \in {"sol", "token"}
    /\ targetWallets \in TargetLists(IF kind = "sol" THEN MaxSolTargets
                                                    ELSE MaxTokenTargets)
    /\ cmd = (IF kind = "sol" THEN "send-to-all-sol" ELSE "send-to-all-token")
    /\ selector = Absent
    /\ wallets = targetWallets
    /\ walletIndices = <<>>
    /\ result = "run"
    /\ pc = "start"
    /\ walletBatches = <<>> /\ batchIndex = 0 /\ j = 0
    /\ destinationAccounts = <<>> /\ resolved = {} /\ issued = {}
    /\ pending = {} /\ awaiting = -1 /\ attempts = <<>>
    /\ submissions = <<>> /\ outcomes = <<>>
    /\ CollectIdle
    /\ ImportIdle
    /\ EnvIdle
    /\ FileIdle

BuildBatches ==
    LET batches == BatchesFrom(targetWallets, 0, MaxWalletsPerTx(kind))
    IN /\ walletBatches' = batches
       /\ attempts' = [b \in DOMAIN batches |-> 0]
       /\ submissions' = [b \in DOMAIN batches |-> 0]
       /\ pc' = "loop"

\* sendSolToAll up to the for loop over the batches
StartSol ==
    /\ pc = "start" /\ kind = "sol"
    /\ BuildBatches
    /\ UNCHANGED <<batchIndex, j, destinationAccounts, resolved, issued,
                   pending, awaiting, outcomes, kind, targetWallets>>
    /\ UNCHANGED cliVars
    /\ UNCHANGED collectVars
    /\ UNCHANGED importVars
    /\ UNCHANGED envVars
    /\ UNCHANGED fileVars

\* variant: the command goes on when the main wallet's account did not resolve
afterMainAccount_GoesOn(ok, next) == next

\* await getOrCreateAssociatedTokenAccount(...) for the main wallet, outside
\* any try block: when it throws, the command function ends there
afterMainAccount(ok, next) == IF ok THEN next ELSE "aborted"

\* the promise of the command function: rejected when that await threw
commandPromise(ok, current) == IF ok THEN current ELSE "rejected"

\* sendTokenToAll up to the for loop: the main wallet's own token account is
\* resolved first, outside any try block
StartToken ==
    /\ pc = "start" /\ kind = "token"
    /\ \E ok \in BOOLEAN :
          /\ result' = commandPromise(ok, result)
          /\ IF afterMainAccount(ok, "loop") = "loop" THEN BuildBatches
             ELSE /\ pc' = "aborted"
                  /\ UNCHANGED <<walletBatches, attempts, submissions>>
    /\ UNCHANGED <<batchIndex, j, destinationAccounts, resolved, issued,
                   pending, awaiting, outcomes, kind, targetWallets>>
    /\ UNCHANGED <<cmd, selector, wallets, walletIndices>>
    /\ UNCHANGED collectVars
    /\ UNCHANGED importVars
    /\ UNCHANGED envVars
    /\ UNCHANGED fileVars

\* batchIndex < walletBatches.length is false: "Completed sending ..."
LoopExit ==
    /\ pc = "loop"
    /\ batchIndex >= Len(walletBatches)
    /\ pc' = "done"
    /\ UNCHANGED <<kind, targetWallets, walletBatches, batchIndex, j,
                   destinationAccounts, resolved, issued, pending, awaiting,
                   attempts, submissions, outcomes>>
    /\ UNCHANGED cliVars
    /\ UNCHANGED collectVars
    /\ UNCHANGED importVars
    /\ UNCHANGED envVars
    /\ UNCHANGED fileVars

\* one iteration of sendSolToAll's loop up to its await: the transfer
\* instructions of the batch are added to one Transaction (new PublicKey
\* throws on a malformed stored address) and the transaction is submitted
SolBatchSubmit ==
    /\ pc = "loop" /\ kind = "sol"
    /\ batchIndex < Len(walletBatches)
    /\ attempts' = [attempts EXCEPT ![batchIndex + 1] = @ + 1]
    /\ \E keysOk \in BOOLEAN :
          IF keysOk
          THEN /\ submissions' = [submissions EXCEPT ![batchIndex + 1] = @ + 1]
               /\ awaiting' = batchIndex
               /\ pc' = "await"
               /\ UNCHANGED <<batchIndex, outcomes>>
          ELSE /\ outcomes' = Append(outcomes, Report(batchIndex, "error"))
               /\ batchIndex' = batchIndex + 1
               /\ pc' = "loop"
               /\ UNCHANGED <<submissions, awaiting>>
    /\ UNCHANGED <<kind, targetWallets, walletBatches, j, destinationAccounts,
                   resolved, issued, pending>>
    /\ UNCHANGED cliVars
    /\ UNCHANGED collectVars
    /\ UNCHANGED importVars
    /\ UNCHANGED envVars
    /\ UNCHANGED fileVars

\* one iteration of sendTokenToAll's loop up to its first await: the
\* account of the first wallet of the batch is being resolved
TokenBatchBegin ==
    /\ pc = "loop" /\ kind = "token"
    /\ batchIndex < Len(walletBatches)
    /\ attempts' = [attempts EXCEPT ![batchIndex + 1] = @ + 1]
    /\ destinationAccounts' = <<>>
    /\ j' = 1
    /\ pc' = "resolve"
    /\ UNCHANGED <<kind, targetWallets, walletBatches, batchIndex, resolved,
                   issued, pending, awaiting, submissions, outcomes>>
    /\ UNCHANGED cliVars
    /\ UNCHANGED collectVars
    /\ UNCHANGED importVars
    /\ UNCHANGED envVars
    /\ UNCHANGED fileVars

\* await getOrCreateAssociatedTokenAccount(...) of wallet j returns or
\* throws.  After the last one the second loop calls transfer(...) for every
\* destination account without awaiting it (each call submits a transaction
\* of its own, as the awaited call in sendToken does), adds the returned
\* promises to the Transaction, and submits that with
\* sendAndConfirmTransaction.
ResolveReturns ==
    /\ pc = "resolve"
    /\ \E ok \in BOOLEAN :
          IF ok
          THEN LET w == walletBatch[j]
                   now == TransfersIssuedAt(j, walletBatch)
               IN /\ destinationAccounts' = Append(destinationAccounts, w)
                  /\ resolved' = resolved \cup {w}
                  /\ issued' = issued \cup now
                  /\ pending' = pending \cup now
                  /\ IF j < Len(walletBatch)
                     THEN /\ j' = j + 1
                          /\ pc' = "resolve"
                          /\ submissions' =
                               [submissions EXCEPT ![batchIndex + 1] =
                                                       @ + Cardinality(now)]
                          /\ UNCHANGED awaiting
                     ELSE /\ submissions' =
                               [submissions EXCEPT ![batchIndex + 1] =
                                                       @ + Cardinality(now) + 1]
                          /\ awaiting' = batchIndex
                          /\ pc' = "await"
                          /\ UNCHANGED j
                  /\ UNCHANGED <<batchIndex, outcomes>>
          ELSE /\ outcomes' = Append(outcomes, Report(batchIndex, "error"))
               /\ batchIndex' = batchIndex + 1
               /\ pc' = "loop"
               /\ UNCHANGED <<j, destinationAccounts, resolved, issued,
                              pending, awaiting, submissions>>
    /\ UNCHANGED <<kind, targetWallets, walletBatches, attempts>>
    /\ UNCHANGED cliVars
    /\ UNCHANGED collectVars
    /\ UNCHANGED importVars
    /\ UNCHANGED envVars
    /\ UNCHANGED fileVars

\* await sendAndConfirmTransaction(...) of the batch returns a signature or
\* throws; either way the loop goes on to the next batch
BatchTxSettles ==
    /\ pc = "await"
    /\ \E ok \in BOOLEAN :
          outcomes' = Append(outcomes,
                             Report(batchIndex, IF ok THEN "sent" ELSE "error"))
    /\ awaiting' = -1
    /\ batchIndex' = batchIndex + 1
    /\ pc' = "loop"
    /\ UNCHANGED <<kind, targetWallets, walletBatches, j, destinationAccounts,
                   resolved, issued, pending, attempts, submissions>>
    /\ UNCHANGED cliVars
    /\ UNCHANGED collectVars
    /\ UNCHANGED importVars
    /\ UNCHANGED envVars
    /\ UNCHANGED fileVars

\* the promise of an un-awaited transfer(...) fulfils
TransferConfirms ==
    /\ pc \notin {"crashed"}
    /\ \E w \in pending : pending' = pending \ {w}
    /\ UNCHANGED <<kind, targetWallets, walletBatches, batchIndex, j,
                   destinationAccounts, resolved, issued, awaiting, attempts,
                   submissions, outcomes, pc>>
    /\ UNCHANGED cliVars
    /\ UNCHANGED collectVars
    /\ UNCHANGED importVars
    /\ UNCHANGED envVars
    /\ UNCHANGED fileVars

\* the promise of an un-awaited transfer(...) rejects.  Nothing handles the
\* rejection: Node.js 15 and later end the process on an unhandled
\* rejection, Node.js 14 prints a warning and goes on.
TransferRejects ==
    /\ pc \notin {"crashed"}
    /\ \E w \in pending : pending' = pending \ {w}
    /\ \E exits \in BOOLEAN :
          IF exits THEN pc' = "crashed" /\ awaiting' = -1
          ELSE UNCHANGED <<pc, awaiting>>
    /\ UNCHANGED <<kind, targetWallets, walletBatches, batchIndex, j,
                   destinationAccounts, resolved, issued, attempts,
                   submissions, outcomes>>
    /\ UNCHANGED cliVars
    /\ UNCHANGED collectVars
    /\ UNCHANGED importVars
    /\ UNCHANGED envVars
    /\ UNCHANGED fileVars

NextBatch ==
    \/ StartSol \/ StartToken \/ LoopExit \/ SolBatchSubmit
    \/ TokenBatchBegin \/ ResolveReturns \/ BatchTxSettles
    \/ TransferConfirms \/ TransferRejects

SpecBatch == InitBatch /\ [][NextBatch]_vars

-----------------------------------------------------------------------------
(* Claims about the batched sends *)

Batched == pc \in {"loop", "resolve", "await", "done", "crashed"}

CeilDiv(n, d) == (n + d - 1) \div d

BatchSizes == [b \in DOMAIN walletBatches |-> Len(walletBatches[b])]

InFlight(b) ==
    \/ awaiting = b - 1
    \/ \E w \in pending : BatchOf(w) = b

\* C1: N >= 1 targets are partitioned into exactly ceil(N / max) batches
\* (max 10 for send-to-all-sol, 5 for send-to-all-token); every batch but
\* the last holds max wallets, the last between 1 and max; 23 native targets
\* give the sizes 10, 10, 3.
C1_BatchCountAndSizes ==
    Batched =>
        LET n == Len(targetWallets)
            max == IF kind = "sol" THEN 10 ELSE 5
            count == Len(walletBatches)
        IN /\ count = CeilDiv(n, max)
           /\ \A b \in 1..(count - 1) : Len(walletBatches[b]) = max
           /\ Len(walletBatches[count]) \in 1..max
           /\ (kind = "sol" /\ n = 23) => BatchSizes = <<10, 10, 3>>

C1_Witness ==
    /\ pc = "done" /\ kind = "sol"
    /\ Len(targetWallets) = 23
    /\ BatchSizes = <<10, 10, 3>>

\* C2: the batches are a lossless, order-preserving cover of the target
\* list: concatenated in batch order they give the target list back, and no
\* batch is empty.
C2_BatchesCoverTargetsInOrder ==
    Batched =>
        /\ Flatten(walletBatches) = targetWallets
        /\ \A b \in DOMAIN walletBatches : walletBatches[b] # <<>>

C2_Witness ==
    /\ pc = "done" /\ kind = "token"
    /\ Len(targetWallets) = 11
    /\ Len(walletBatches) = 3
    /\ Flatten(walletBatches) = targetWallets

\* C3: each batch becomes exactly one transaction: no batch causes more
\* than one transaction submission, so a run submits at most as many
\* transactions as it has batches.
C3_OneSubmissionPerBatch ==
    \A b \in DOMAIN submissions : submissions[b] <= 1

\* C4: when a batched send has ended, every batch was attempted exactly
\* once and reported exactly once, in batch order, whatever the outcomes of
\* the earlier batches.
C4_EveryBatchAttemptedOnce ==
    pc \in {"done", "crashed"} =>
        /\ \A b \in DOMAIN attempts : attempts[b] = 1
        /\ Len(outcomes) = Len(walletBatches)
        /\ \A i \in DOMAIN outcomes : outcomes[i].batch = i - 1

\* C5: batches are submitted sequentially: no transaction of a later batch
\* is in flight while a transaction of an earlier batch is neither
\* confirmed nor failed.
C5_BatchesSequential ==
    \A b1, b2 \in DOMAIN walletBatches :
        b1 < b2 => ~(InFlight(b1) /\ InFlight(b2))

\* C6: in send-to-all-token, whenever a transfer of a batch has been
\* issued, the receiving account of every wallet of that batch had been
\* resolved before.
C6_AccountsResolvedBeforeTransfers ==
    kind = "token" =>
        \A b \in DOMAIN walletBatches :
            Range(walletBatches[b]) \cap issued # {}
                => Range(walletBatches[b]) \subseteq resolved

C6_Witness ==
    /\ kind = "token"
    /\ pc = "await"
    /\ batchIndex = 1
    /\ Len(walletBatch) = 5
    /\ Range(walletBatch) \subseteq issued
    /\ Range(walletBatch) \subseteq resolved

-----------------------------------------------------------------------------
(* collect-sol: the collection policy of collectSol *)

LAMPORTS_PER_SOL == 1000000000

transferFee == 5000

\* leaveAmount * LAMPORTS_PER_SOL, for a --leave given in whole micro-SOL
\* (0, 0.000001, 0.01: the floating-point product is then the exact integer)
leaveAmountLamports == leaveAmount * (LAMPORTS_PER_SOL \div 1000000)

totalMinimumRequired_NoRent(rentExempt, leaveLamports) ==
    transferFee + leaveLamports

totalMinimumRequired(rentExempt, leaveLamports) ==
    rentExempt + transferFee + leaveLamports

transferAmount_NoFee(balance, leaveLamports) == balance - leaveLamports

transferAmount(balance, leaveLamports) ==
    balance - leaveLamports - transferFee

\* balance <= totalMinimumRequired: "Skipping ...: Insufficient balance"
Skips(balance, rentExempt, leaveLamports) ==
    balance <= totalMinimumRequired(rentExempt, leaveLamports)

Entry(w, status, plan, balance, amount) ==
    [wallet |-> w, status |-> status, plan |-> plan,
     balance |-> balance, amount |-> amount]

-----------------------------------------------------------------------------
(* SpecCollect: collectSol after source selection *)

LeaveChoices == {0, 1, 10000}

RentChoices == {0, 890880}

BalanceChoices(rentExempt, leaveMicro) ==
    LET threshold == rentExempt + transferFee
                         + leaveMicro * (LAMPORTS_PER_SOL \div 1000000)
    IN {0} \cup {threshold + d : d \in (0 - MaxDelta)..MaxDelta}

Faults == {"none", "key", "balance", "rent", "send"}

InitCollect ==
    /\ cmd = "collect-sol"
    /\ selector = Absent
    /\ walletIndices = <<>>
    /\ result = "run"
    /\ wallets \in TargetLists(MaxCollectWallets)
    /\ targetWallets = wallets
    /\ leaveAmount \in LeaveChoices
    /\ rentExemptBalance \in RentChoices
    /\ balances \in [DOMAIN wallets ->
                        BalanceChoices(rentExemptBalance, leaveAmount)]
    /\ walletPos = 1
    /\ collectLog = <<>>
    /\ mainReceived = 0
    /\ pc = "collect"
    /\ BatchIdle
    /\ ImportIdle
    /\ EnvIdle
    /\ FileIdle

\* variant: an error ends the loop
NextPos_StopsOnError(pos, status, len) ==
    IF status = "error" THEN len + 1 ELSE pos + 1

\* for (const wallet of ...): the iteration that follows, whatever the
\* try block or its catch reported
NextPos(pos, status, len) == pos + 1

\* one iteration of the for-of loop over sourceWallets: the whole try block
\* and its catch.  fault names the call that throws, if any.
CollectWallet ==
    /\ pc = "collect"
    /\ walletPos <= Len(targetWallets)
    /\ LET w == targetWallets[walletPos].name
           balance == balances[w]
           leave == leaveAmountLamports
           amount == transferAmount(balance, leave)
       IN \E fault \in Faults :
             IF fault \in {"key", "balance", "rent"}
             THEN /\ collectLog' = Append(collectLog,
                                     Entry(w, "error", "none", -1, 0))
                  /\ UNCHANGED <<balances, mainReceived>>
             ELSE IF Skips(balance, rentExemptBalance, leave)
             THEN /\ collectLog' = Append(collectLog,
                                     Entry(w, "skipped", "skip", balance, 0))
                  /\ UNCHANGED <<balances, mainReceived>>
             ELSE IF fault = "send"
             THEN /\ collectLog' = Append(collectLog,
                            Entry(w, "error", "withdraw", balance, amount))
                  /\ UNCHANGED <<balances, mainReceived>>
             ELSE /\ collectLog' = Append(collectLog,
                            Entry(w, "collected", "withdraw", balance, amount))
                  /\ balances' = [balances EXCEPT
                                     ![w] = @ - amount - transferFee]
                  /\ mainReceived' = mainReceived + amount
    /\ walletPos' = NextPos(walletPos, collectLog'[Len(collectLog')].status,
                            Len(targetWallets))
    /\ UNCHANGED <<targetWallets, pc, leaveAmount, rentExemptBalance>>
    /\ UNCHANGED cliVars
    /\ UNCHANGED batchVars
    /\ UNCHANGED importVars
    /\ UNCHANGED envVars
    /\ UNCHANGED fileVars

\* the loop has gone through every source wallet
CollectExit ==
    /\ pc = "collect"
    /\ walletPos > Len(targetWallets)
    /\ pc' = "done"
    /\ UNCHANGED targetWallets
    /\ UNCHANGED cliVars
    /\ UNCHANGED batchVars
    /\ UNCHANGED collectVars
    /\ UNCHANGED importVars
    /\ UNCHANGED envVars
    /\ UNCHANGED fileVars

NextCollect == CollectWallet \/ CollectExit

SpecCollect == InitCollect /\ [][NextCollect]_vars

-----------------------------------------------------------------------------
(* Claims about the collection policy *)

Planned(e) == e.plan # "none"

\* C7: for every balance, reserve, fee estimate 5000 and rent-exempt
\* minimum, the plan is skip exactly when
\* balance <= minRentExempt + 5000 + reserve; otherwise exactly
\* balance - reserve - 5000 is withdrawn to the main wallet (the rent-exempt
\* minimum is not subtracted).
C7_CollectionPolicy ==
    LET reserve == leaveAmount * 1000
        threshold == rentExemptBalance + 5000 + reserve
    IN /\ \A i \in DOMAIN collectLog :
             LET e == collectLog[i]
             IN Planned(e) =>
                   /\ e.plan = "skip" <=> e.balance <= threshold
                   /\ e.plan = "skip" => e.status = "skipped" /\ e.amount = 0
                   /\ e.plan = "withdraw" =>
                          e.amount = e.balance - reserve - 5000
                   /\ e.status = "collected" =>
                          balances[e.wallet] = e.balance - e.amount - 5000
       /\ mainReceived =
             LET got[i \in 0..Len(collectLog)] ==
                     IF i = 0 THEN 0
                     ELSE got[i - 1] + (IF collectLog[i].status = "collected"
                                        THEN collectLog[i].amount ELSE 0)
             IN got[Len(collectLog)]

C7_Witness ==
    /\ pc = "done"
    /\ leaveAmount = 10000
    /\ rentExemptBalance = 890880
    /\ Len(collectLog) = 2
    /\ collectLog[1].plan = "skip" /\ collectLog[1].balance = 10895880
    /\ collectLog[2].status = "collected" /\ collectLog[2].balance = 10895881
    /\ mainReceived = 890881

\* C8 as stated: with minRentExempt 890880, fee estimate 5000 and reserve 0,
\* a balance of 895880 is skipped and a balance of 895881 has 895881
\* withdrawn.
C8_ExampleAsStated ==
    (rentExemptBalance = 890880 /\ leaveAmount = 0) =>
        \A i \in DOMAIN collectLog :
            LET e == collectLog[i]
            IN Planned(e) =>
                  /\ e.balance = 895880 => e.plan = "skip"
                  /\ e.balance = 895881 =>
                         e.plan = "withdraw" /\ e.amount = 895881

\* C8 amended: with minRentExempt 890880, fee estimate 5000 and reserve 0,
\* a balance of 895880 is skipped and a balance of 895881 has
\* 895881 - 0 - 5000 = 890881 withdrawn.
C8_ExampleAmended ==
    (rentExemptBalance = 890880 /\ leaveAmount = 0) =>
        \A i \in DOMAIN collectLog :
            LET e == collectLog[i]
            IN Planned(e) =>
                  /\ e.balance = 895880 => e.plan = "skip"
                  /\ e.balance = 895881 =>
                         e.plan = "withdraw" /\ e.amount = 890881

C8_Witness ==
    /\ pc = "done"
    /\ rentExemptBalance = 890880 /\ leaveAmount = 0
    /\ Len(collectLog) = 2
    /\ collectLog[1].balance = 895880 /\ collectLog[1].status = "skipped"
    /\ collectLog[2].balance = 895881 /\ collectLog[2].status = "collected"
    /\ collectLog[2].amount = 890881

-----------------------------------------------------------------------------
(* Explicit selections *)

\* C11: for a selector that parses to a non-empty list S and a store of n
\* wallets, the targets are exactly the store records at the positions of S
\* that lie in 1..n, in ascending position order, each once; position 0 and
\* positions above n are dropped; when none remains a send or collect
\* command does not run (no fall-back to all wallets).
C11_ExplicitSelectionFiltersPositions ==
    (pc \in {"selected", "exit"} /\ walletIndices # <<>>) =>
        LET kept == SortedSeqOfSet(Range(walletIndices)
                                      \cap (1..Len(wallets)))
        IN /\ targetWallets = [k \in DOMAIN kept |-> wallets[kept[k]]]
           /\ (kept = <<>> /\ cmd # "balance")
                 => (result \in {"noTargets", "noWallets"} /\ pc = "exit")

C11_Witness ==
    /\ pc = "selected"
    /\ cmd = "send-sol"
    /\ walletIndices = <<0, 1, 2>>
    /\ Len(wallets) = 1
    /\ targetWallets = <<[name |-> 1]>>

(* ------------------------------------------------------------------ *)
(* importWallets: wallet records, key texts and the validation loop    *)
(* ------------------------------------------------------------------ *)
\* bound of the import model: the longest import file
MaxFile == 2

\* A wallet name is the text prefix followed by a number ("wallet3",
\* "imported_wallet1"); NoName stands for an absent or empty (falsy) name.
Name(prefix, num) == [prefix |-> prefix, num |-> num]
NoName == Name("", 0)

\* A private key text: its encoding and the secret key bytes it encodes.
\* NoKey is an absent (falsy) text, JunkKey a text that decodes to nothing.
Key(enc, secret) == [enc |-> enc, secret |-> secret]
NoKey == Key("none", "")
JunkKey == Key("junk", "")
NoAddress == ""

Secrets == {"s1", "s2", "s3"}

\* Keypair.fromSecretKey(bytes).publicKey.toString()
fromSecretKey(secret) ==
    CASE secret = "s1" -> "p1"
      [] secret = "s2" -> "p2"
      [] secret = "s3" -> "p3"

Wallet(name, publicKey, privateKey) ==
    [name |-> name, publicKey |-> publicKey, privateKey |-> privateKey]

\* the text contains '+', '/' or '=': only a base64 text does (a 64-byte key
\* in base64 always ends in padding, the base58 alphabet has none of the three)
looksBase64(privateKey) == privateKey.enc = "base64"

\* bs58.encode(new Uint8Array(base64Decode(text)))
base64ToBase58(privateKey) == Key("base58", privateKey.secret)

\* bs58.decode followed by Keypair.fromSecretKey succeeds
decodes(privateKey) == privateKey.enc = "base58"

\* format detection from the first element of the file
detectFormat(importedWallets) ==
    LET sampleWallet == IF importedWallets = <<>>
                        THEN Wallet(NoName, NoAddress, NoKey)
                        ELSE importedWallets[1]
    IN IF /\ sampleWallet.name # NoName
          /\ sampleWallet.publicKey # NoAddress
          /\ sampleWallet.privateKey # NoKey
       THEN "standard"
       ELSE IF sampleWallet.publicKey # NoAddress /\ sampleWallet.privateKey # NoKey
       THEN "keyonly"
       ELSE "unknown"

Outcome(status, wallet) == [status |-> status, wallet |-> wallet]

\* the keypair verification of one processed wallet.
\* variant: the file's address is trusted, the derived one is never compared
verify_TrustsFile(processedWallet, fix) ==
    IF ~decodes(processedWallet.privateKey)
    THEN Outcome("invalidKey", processedWallet)
    ELSE Outcome("accepted", processedWallet)

\* the keypair verification of one processed wallet
verify(processedWallet, fix) ==
    IF ~decodes(processedWallet.privateKey)
    THEN Outcome("invalidKey", processedWallet)
    ELSE LET derived == fromSecretKey(processedWallet.privateKey.secret)
         IN IF derived # processedWallet.publicKey
            THEN IF fix
                 THEN Outcome("fixed", [processedWallet EXCEPT !.publicKey = derived])
                 ELSE Outcome("mismatch", processedWallet)
            ELSE Outcome("accepted", processedWallet)

\* one iteration of the processing loop, for the file element at 0-based index i
processRecord(wallet, i, format, fix) ==
    IF format = "standard"
    THEN IF wallet.name = NoName \/ wallet.publicKey = NoAddress
                                 \/ wallet.privateKey = NoKey
         THEN Outcome("missingFields", wallet)
         ELSE verify(Wallet(wallet.name, wallet.publicKey, wallet.privateKey), fix)
    ELSE IF format = "keyonly"
    THEN IF wallet.publicKey = NoAddress \/ wallet.privateKey = NoKey
         THEN Outcome("missingFields", wallet)
         ELSE LET name == IF wallet.name # NoName THEN wallet.name
                          ELSE Name("imported_wallet", i + 1)
                  privateKeyBase58 == IF looksBase64(wallet.privateKey)
                                      THEN base64ToBase58(wallet.privateKey)
                                      ELSE wallet.privateKey
              IN verify(Wallet(name, wallet.publicKey, privateKeyBase58), fix)
    ELSE Outcome("unknownFormat", wallet)

\* what the processing loop reports for each element of the file
processAll(importedWallets, fix) ==
    [i \in DOMAIN importedWallets |->
        processRecord(importedWallets[i], i - 1,
                      detectFormat(importedWallets), fix)]

Pushed(outcome) == outcome.status \in {"accepted", "fixed"}

\* processedWallets after the loop
processed(outcomes_) ==
    LET kept == SelectSeq(outcomes_, Pushed)
    IN [k \in DOMAIN kept |-> kept[k].wallet]

(* ------------------------------------------------------------------ *)
(* importWallets: the merge loop                                       *)
(* ------------------------------------------------------------------ *)
\* Array.prototype.findIndex on the name / on the address: the first position
\* that matches, 0 when there is none (JavaScript: -1, positions from 0)
findIndexName(list, name) ==
    IF \E k \in DOMAIN list : list[k].name = name
    THEN CHOOSE k \in DOMAIN list :
            /\ list[k].name = name
            /\ \A h \in 1..(k - 1) : list[h].name # name
    ELSE 0

findIndexKey(list, publicKey) ==
    IF \E k \in DOMAIN list : list[k].publicKey = publicKey
    THEN CHOOSE k \in DOMAIN list :
            /\ list[k].publicKey = publicKey
            /\ \A h \in 1..(k - 1) : list[h].publicKey # publicKey
    ELSE 0

Step(merged, action) == [merged |-> merged, action |-> action]

\* variant: the address match is looked at before the name match
mergeStep_KeyFirst(mergedWallets, wallet, ow) ==
    LET duplicateNameIndex == findIndexName(mergedWallets, wallet.name)
        duplicateKeyIndex == findIndexKey(mergedWallets, wallet.publicKey)
    IN IF duplicateKeyIndex # 0
       THEN IF ow
            THEN Step([mergedWallets EXCEPT ![duplicateKeyIndex] = wallet],
                      "overwriteKey")
            ELSE Step(mergedWallets, "skipKey")
       ELSE IF duplicateNameIndex # 0
       THEN IF ow
            THEN Step([mergedWallets EXCEPT ![duplicateNameIndex] = wallet],
                      "overwriteName")
            ELSE Step(mergedWallets, "skipName")
       ELSE Step(Append(mergedWallets, wallet), "append")

\* variant: a duplicate is overwritten whatever options.overwrite says
mergeStep_IgnoresOption(mergedWallets, wallet, ow) ==
    LET duplicateNameIndex == findIndexName(mergedWallets, wallet.name)
        duplicateKeyIndex == findIndexKey(mergedWallets, wallet.publicKey)
    IN IF duplicateNameIndex # 0
       THEN Step([mergedWallets EXCEPT ![duplicateNameIndex] = wallet],
                 "overwriteName")
       ELSE IF duplicateKeyIndex # 0
       THEN Step([mergedWallets EXCEPT ![duplicateKeyIndex] = wallet],
                 "overwriteKey")
       ELSE Step(Append(mergedWallets, wallet), "append")

\* the list without its element at position k
RemoveAt(list, k) == SubSeq(list, 1, k - 1) \o SubSeq(list, k + 1, Len(list))

\* variant: an overwritten record is removed and the incoming one pushed
mergeStep_OverwriteMovesToEnd(mergedWallets, wallet, ow) ==
    LET duplicateNameIndex == findIndexName(mergedWallets, wallet.name)
        duplicateKeyIndex == findIndexKey(mergedWallets, wallet.publicKey)
    IN IF duplicateNameIndex # 0
       THEN IF ow
            THEN Step(Append(RemoveAt(mergedWallets, duplicateNameIndex), wallet),
                      "overwriteName")
            ELSE Step(mergedWallets, "skipName")
       ELSE IF duplicateKeyIndex # 0
       THEN IF ow
            THEN Step(Append(RemoveAt(mergedWallets, duplicateKeyIndex), wallet),
                      "overwriteKey")
            ELSE Step(mergedWallets, "skipKey")
       ELSE Step(Append(mergedWallets, wallet), "append")

\* the body of the merge loop for one processed wallet
mergeStep(mergedWallets, wallet, ow) ==
    LET duplicateNameIndex == findIndexName(mergedWallets, wallet.name)
        duplicateKeyIndex == findIndexKey(mergedWallets, wallet.publicKey)
    IN IF duplicateNameIndex # 0
       THEN IF ow
            THEN Step([mergedWallets EXCEPT ![duplicateNameIndex] = wallet],
                      "overwriteName")
            ELSE Step(mergedWallets, "skipName")
       ELSE IF duplicateKeyIndex # 0
       THEN IF ow
            THEN Step([mergedWallets EXCEPT ![duplicateKeyIndex] = wallet],
                      "overwriteKey")
            ELSE Step(mergedWallets, "skipKey")
       ELSE Step(Append(mergedWallets, wallet), "append")

\* the merge loop over the processed wallets, one trace entry per iteration
RECURSIVE mergeLoop(_, _, _)
mergeLoop(mergedWallets, incoming, ow) ==
    IF incoming = <<>> THEN <<>>
    ELSE LET step == mergeStep(mergedWallets, Head(incoming), ow)
         IN <<[incoming |-> Head(incoming), before |-> mergedWallets,
               after |-> step.merged, action |-> step.action]>>
            \o mergeLoop(step.merged, Tail(incoming), ow)

\* mergedWallets when the loop ends
mergedAfter(existingWallets, trace) ==
    IF trace = <<>> THEN existingWallets ELSE trace[Len(trace)].after

\* variant: only appended wallets are counted
counts_AppendOnly(action) == action = "append"

\* the iterations that run importCount++
counts(action) == action \in {"overwriteName", "overwriteKey", "append"}

importCountOf(trace) ==
    Cardinality({k \in DOMAIN trace : counts(trace[k].action)})

(* ------------------------------------------------------------------ *)
(* importWallets: the command                                          *)
(* ------------------------------------------------------------------ *)
SeqsUpTo(S, n) == UNION {[1..k -> S] : k \in 0..n}

\* the elements an import file is made of: every combination of an absent or
\* present name, an address and a base58 key, and the irregular ones
RawNames == {NoName, Name("wallet", 1), Name("wallet", 2)}
RawRecords ==
    {Wallet(n, p, Key("base58", s)) :
        n \in RawNames, p \in {"p1", "p2"}, s \in {"s1", "s2"}}
    \cup {Wallet(Name("wallet", 1), NoAddress, Key("base58", "s1")),
          Wallet(Name("wallet", 1), "p1", NoKey),
          Wallet(Name("wallet", 1), "p1", JunkKey),
          Wallet(Name("wallet", 2), "p2", Key("base64", "s2")),
          Wallet(NoName, "p1", Key("base64", "s1"))}

ImportFiles ==
    {[kind |-> "array", records |-> r] : r \in SeqsUpTo(RawRecords, MaxFile)}
    \cup {[kind |-> "notArray", records |-> <<>>],
          [kind |-> "unreadable", records |-> <<>>]}

\* the stores an import can find: records as create and import write them,
\* names and addresses distinct
StoreNames == {Name("wallet", 1), Name("wallet", 2)}
ValidWallets ==
    {Wallet(n, fromSecretKey(s), Key("base58", s)) : n \in StoreNames, s \in Secrets}
Distinct(list) ==
    \A h, k \in DOMAIN list :
        h # k => /\ list[h].name # list[k].name
                 /\ list[h].publicKey # list[k].publicKey
WalletStores ==
    {w \in SeqsUpTo(ValidWallets, Cardinality(StoreNames)) : Distinct(w)}

SelectIdle == selector = Absent /\ walletIndices = <<>> /\ targetWallets = <<>>

InitImport ==
    /\ cmd = "import"
    /\ pc = "import"
    /\ result = "run"
    /\ wallets \in WalletStores
    /\ file \in ImportFiles
    /\ overwrite \in BOOLEAN
    /\ fixPublicKeys \in BOOLEAN
    /\ keepAnswer = "none"
    /\ processedWallets = <<>> /\ diagnostics = <<>> /\ mergeTrace = <<>>
    /\ importCount = 0 /\ storeWrites = 0
    /\ createCount = 0 /\ createPrefix = ""
    /\ SelectIdle
    /\ BatchIdle
    /\ CollectIdle
    /\ EnvIdle
    /\ FileIdle

\* the merge loop and saveWallets(mergedWallets)
MergeAndSave(incoming) ==
    LET existingWallets == loadWallets(storeFile, wallets)
        trace == mergeLoop(existingWallets, incoming, overwrite)
    IN /\ mergeTrace' = trace
       /\ importCount' = importCountOf(trace)
       /\ wallets' = mergedAfter(existingWallets, trace)
       /\ storeFile' = "ok"
       /\ storeWrites' = storeWrites + 1
       /\ result' = "imported"
       /\ pc' = "exit"

\* variant: the import goes on with an empty list of processed wallets
nothingToImport_Never(incoming) == FALSE

\* processedWallets.length === 0: 'No valid wallets found or processed'
nothingToImport(incoming) == Len(incoming) = 0

\* importWallets from its first line to the prompt, or to its end when the
\* prompt is not reached
ImportProcess ==
    /\ pc = "import"
    /\ cmd = "import"
    /\ IF file.kind # "array"
       THEN /\ result' = (IF file.kind = "unreadable" THEN "error" ELSE "notArray")
            /\ pc' = "exit"
            /\ UNCHANGED <<wallets, processedWallets, diagnostics, mergeTrace,
                           importCount, storeWrites, storeReads, storeFile>>
       ELSE LET reports == processAll(file.records, fixPublicKeys)
                incoming == processed(reports)
            IN /\ diagnostics' = reports
               /\ processedWallets' = incoming
               /\ IF nothingToImport(incoming)
                  THEN /\ result' = "noValid"
                       /\ pc' = "exit"
                       /\ UNCHANGED <<wallets, mergeTrace, importCount,
                                      storeWrites, storeReads, storeFile>>
                  ELSE /\ storeReads' = storeReads + 1
                       /\ IF Len(loadWallets(storeFile, wallets)) > 0
                          THEN /\ pc' = "prompt"
                               /\ UNCHANGED <<wallets, mergeTrace, importCount,
                                              storeWrites, result, storeFile>>
                          ELSE MergeAndSave(incoming)
    /\ UNCHANGED <<cmd, selector, walletIndices, targetWallets, file, overwrite,
                   fixPublicKeys, keepAnswer, mainKey, exitCode,
                   createCount, createPrefix>>
    /\ UNCHANGED batchVars
    /\ UNCHANGED collectVars
    /\ UNCHANGED listOutput

\* importWallets from the answer to the prompt to its end
ImportAnswer ==
    /\ pc = "prompt"
    /\ cmd = "import"
    /\ \E keepExisting \in BOOLEAN :
          /\ keepAnswer' = (IF keepExisting THEN "keep" ELSE "replace")
          /\ IF ~keepExisting
             THEN /\ wallets' = processedWallets
                  /\ storeFile' = "ok"
                  /\ storeWrites' = storeWrites + 1
                  /\ result' = "replaced"
                  /\ pc' = "exit"
                  /\ UNCHANGED <<mergeTrace, importCount>>
             ELSE MergeAndSave(processedWallets)
    /\ UNCHANGED <<cmd, selector, walletIndices, targetWallets, file, overwrite,
                   fixPublicKeys, processedWallets, diagnostics,
                   createCount, createPrefix>>
    /\ UNCHANGED envVars
    /\ UNCHANGED batchVars
    /\ UNCHANGED collectVars
    /\ UNCHANGED listOutput

NextImport == ImportProcess \/ ImportAnswer

SpecImport == InitImport /\ [][NextImport]_vars

(* Import merge *)
NameHits(e) == {k \in DOMAIN e.before : e.before[k].name = e.incoming.name}
KeyHits(e) ==
    {k \in DOMAIN e.before : e.before[k].publicKey = e.incoming.publicKey}

\* the incoming record took the place of one record among hits, nothing else moved
Replaced(e, hits) ==
    /\ Len(e.after) = Len(e.before)
    /\ \E k \in hits :
          /\ e.after[k] = e.incoming
          /\ \A h \in DOMAIN e.before : h # k => e.after[h] = e.before[h]

MergeRule(e, ow) ==
    IF NameHits(e) # {}
    THEN IF ow THEN Replaced(e, NameHits(e)) ELSE e.after = e.before
    ELSE IF KeyHits(e) # {}
    THEN IF ow THEN Replaced(e, KeyHits(e)) ELSE e.after = e.before
    ELSE e.after = Append(e.before, e.incoming)

\* an import step that ends in a merge (the existing wallets are kept)
Merges == result # "imported" /\ result' = "imported"

\* C12: an import merge treats the validated incoming records one by one, in
\* incoming order, each against the list merged so far (the first against the
\* existing store, the store written being the list after the last): a record
\* with the same name is overwritten when overwrite is on and the incoming
\* record is skipped when it is off; else the same rule applies to a record
\* with the same address; else the incoming record is appended.  The name
\* match takes precedence over the address match.
C12_MergeTreatsRecordsInOrder ==
    [][Merges =>
          LET t == mergeTrace'
          IN /\ Len(t) = Len(processedWallets')
             /\ \A k \in DOMAIN t :
                   /\ t[k].incoming = processedWallets'[k]
                   /\ t[k].before = (IF k = 1 THEN wallets ELSE t[k - 1].after)
                   /\ MergeRule(t[k], overwrite)
             /\ wallets' = t[Len(t)].after]_vars

\* an incoming record whose name is that of one stored record and whose
\* address is that of another one has overwritten the former
C12_Witness ==
    /\ result = "imported" /\ overwrite
    /\ \E k \in DOMAIN mergeTrace :
          LET e == mergeTrace[k]
          IN /\ NameHits(e) # {} /\ KeyHits(e) # {}
             /\ NameHits(e) \cap KeyHits(e) = {}
             /\ Replaced(e, NameHits(e))
             /\ ~Replaced(e, KeyHits(e))

\* C13: with overwrite disabled and the existing wallets kept, the existing
\* store is a prefix of the merged store (every existing record unchanged, at
\* its position), and an incoming record whose name or address matches an
\* existing record is not counted as imported.
C13_NoOverwriteKeepsExisting ==
    [][(Merges /\ ~overwrite) =>
          LET t == mergeTrace'
              matching == {k \in DOMAIN t :
                             \E h \in DOMAIN wallets :
                                \/ wallets[h].name = t[k].incoming.name
                                \/ wallets[h].publicKey = t[k].incoming.publicKey}
          IN /\ Len(wallets') >= Len(wallets)
             /\ \A h \in DOMAIN wallets : wallets'[h] = wallets[h]
             /\ \A k \in matching : t[k].action \in {"skipName", "skipKey"}
             /\ importCount' <= Len(t) - Cardinality(matching)
             /\ importCount' = Len(wallets') - Len(wallets)]_vars

\* existing wallets kept, overwrite off: one incoming record skipped for its
\* name, another one appended
C13_Witness ==
    /\ result = "imported" /\ ~overwrite /\ keepAnswer = "keep"
    /\ importCount = 1 /\ Len(mergeTrace) = 2
    /\ mergeTrace[1].action = "skipName"
    /\ mergeTrace[2].action = "append"
    /\ mergeTrace[1].incoming # mergeTrace[1].before[1]

Actions(trace, A) == Cardinality({k \in DOMAIN trace : trace[k].action \in A})

\* C14: the imported count of a merge is the number of incoming records
\* appended plus the number overwritten, and the imported count plus the
\* skipped duplicates is the number of validated incoming records.
C14_ImportCountIsAppendedPlusOverwritten ==
    result = "imported" =>
        LET appended == Actions(mergeTrace, {"append"})
            overwritten == Actions(mergeTrace, {"overwriteName", "overwriteKey"})
            skipped == Actions(mergeTrace, {"skipName", "skipKey"})
        IN /\ importCount = appended + overwritten
           /\ importCount + skipped = Len(processedWallets)
           /\ Len(wallets) = Len(mergeTrace[1].before) + appended
           /\ \A k \in DOMAIN mergeTrace :
                 (mergeTrace[k].after # mergeTrace[k].before)
                    => ~(mergeTrace[k].action \in {"skipName", "skipKey"})

\* a merge that appended one record and overwrote another
C14_Witness ==
    /\ result = "imported" /\ importCount = 2
    /\ Actions(mergeTrace, {"append"}) = 1
    /\ Actions(mergeTrace, {"overwriteName", "overwriteKey"}) = 1

(* Address uniqueness *)
AddressesDistinct(list) ==
    \A h, k \in DOMAIN list : h # k => list[h].publicKey # list[k].publicKey

\* C16: import enforces address uniqueness: the existing store has no two
\* records with the same address, and after an import merge, overwrite on or
\* off, no two records of the resulting store share an address.
C16_ImportKeepsAddressesDistinct ==
    result = "imported" => AddressesDistinct(wallets)

(* Address validation *)
AddressDerived(w) ==
    /\ w.privateKey.enc = "base58"
    /\ w.privateKey.secret \in Secrets
    /\ w.publicKey = fromSecretKey(w.privateKey.secret)

\* the file record's key text holds a secret key and the record's address is
\* not the one that key derives
Mismatched(raw) ==
    /\ raw.privateKey.enc \in {"base58", "base64"}
    /\ raw.publicKey # NoAddress
    /\ raw.publicKey # fromSecretKey(raw.privateKey.secret)

\* C17: every record an import writes to the store has the address derived
\* from its own secret: an incoming record whose address differs from the
\* derived one is skipped when fix-public-keys is off and stored with the
\* derived address when it is on; a record whose secret cannot be decoded is
\* never stored.
C17_StoredAddressIsDerived ==
    (cmd = "import" /\ pc \in {"prompt", "exit"} /\ file.kind = "array") =>
        /\ Len(diagnostics) = Len(file.records)
        /\ processedWallets = processed(diagnostics)
        /\ \A i \in DOMAIN diagnostics :
              LET raw == file.records[i]
                  d == diagnostics[i]
              IN /\ Pushed(d) =>
                       /\ AddressDerived(d.wallet)
                       /\ d.wallet.privateKey.secret = raw.privateKey.secret
                 /\ (Mismatched(raw) /\ ~fixPublicKeys) => ~Pushed(d)
                 /\ (Mismatched(raw) /\ fixPublicKeys /\ Pushed(d)) =>
                       d.wallet.publicKey # raw.publicKey
                 /\ raw.privateKey.enc \in {"junk", "none"} => ~Pushed(d)
        /\ result \in {"imported", "replaced"} =>
              \A k \in DOMAIN wallets : AddressDerived(wallets[k])

\* fix-public-keys on: a record whose address was not the derived one is in the
\* store with the derived address
C17_Witness ==
    /\ result = "imported" /\ fixPublicKeys
    /\ \E i \in DOMAIN diagnostics :
          /\ Mismatched(file.records[i])
          /\ Pushed(diagnostics[i])
          /\ \E k \in DOMAIN wallets : wallets[k] = diagnostics[i].wallet

(* Offending records *)
\* a record in the standard form: a name, a base58 secret and its own address
WellFormed(raw) ==
    /\ raw.name # NoName
    /\ raw.privateKey.enc = "base58"
    /\ raw.publicKey = fromSecretKey(raw.privateKey.secret)

\* C18: in import a malformed record, or one failing the address or secret
\* validation, is skipped and reported, and every other valid record of the
\* same file is still imported, wherever in the file the offending record is.
C18_OffendingRecordBlocksNoOther ==
    (cmd = "import" /\ pc \in {"prompt", "exit"} /\ file.kind = "array") =>
        \A i \in DOMAIN file.records :
            WellFormed(file.records[i]) =>
                /\ Pushed(diagnostics[i])
                /\ diagnostics[i].wallet = file.records[i]

(* ------------------------------------------------------------------ *)
(* The wallet store under sequences of create and import commands      *)
(* ------------------------------------------------------------------ *)
\* bounds: the count argument of create, and the store length up to which
\* commands are started
MaxCreate == 2
MaxStore == 3

CreatePrefixes == {"wallet", "imported_wallet"}

\* variant: the new wallet is put in front of the list
createWallet_Unshifts(store, name, secret) ==
    IF \E k \in DOMAIN store : store[k].name = name
    THEN store
    ELSE <<Wallet(name, fromSecretKey(secret), Key("base58", secret))>> \o store

\* createWallet(name) on the store, secret being what Keypair.generate returns
createWallet(store, name, secret) ==
    IF \E k \in DOMAIN store : store[k].name = name
    THEN store
    ELSE Append(store, Wallet(name, fromSecretKey(secret), Key("base58", secret)))

\* the store after iterations i..count-1 of the creation loop
RECURSIVE createLoop(_, _, _, _, _, _)
createLoop(store, prefix, existingCount, i, count, keys) ==
    IF i >= count THEN store
    ELSE createLoop(createWallet(store, Name(prefix, existingCount + i + 1),
                                 keys[i + 1]),
                    prefix, existingCount, i + 1, count, keys)

UsedSecrets(store) == {store[k].privateKey.secret : k \in DOMAIN store}

\* what count calls of Keypair.generate can return: keys never seen before
GeneratedKeys(store, count) ==
    {keys \in [1..count -> Secrets \ UsedSecrets(store)] :
        \A h, k \in 1..count : h # k => keys[h] # keys[k]}

\* the import files of the command sequences
StoreRecords ==
    {Wallet(Name("wallet", 1), "p1", Key("base58", "s1")),
     Wallet(Name("wallet", 1), "p2", Key("base58", "s2")),
     Wallet(NoName, "p1", Key("base58", "s1"))}
StoreFiles ==
    {[kind |-> "array", records |-> r] : r \in SeqsUpTo(StoreRecords, MaxFile)}

InitStore ==
    /\ cmd = "none"
    /\ pc = "shell"
    /\ result = "run"
    /\ wallets = <<>>
    /\ SelectIdle
    /\ ImportIdle
    /\ BatchIdle
    /\ CollectIdle
    /\ EnvIdle
    /\ FileIdle

\* a new process starts: nothing is left of the previous command but the store
FreshProcess ==
    /\ result' = "run"
    /\ keepAnswer' = "none"
    /\ processedWallets' = <<>> /\ diagnostics' = <<>> /\ mergeTrace' = <<>>
    /\ importCount' = 0 /\ storeWrites' = 0 /\ storeReads' = 0
    /\ UNCHANGED <<wallets, selector, walletIndices, targetWallets, mainKey,
                   exitCode>>
    /\ UNCHANGED batchVars
    /\ UNCHANGED collectVars
    /\ UNCHANGED fileVars

\* the user runs: create <count> --prefix <prefix>
BeginCreate ==
    /\ pc \in {"shell", "exit"}
    /\ \E count \in 1..MaxCreate, prefix \in CreatePrefixes :
          /\ Len(wallets) + count <= MaxStore
          /\ GeneratedKeys(wallets, count) # {}
          /\ createCount' = count
          /\ createPrefix' = prefix
    /\ cmd' = "create"
    /\ pc' = "create"
    /\ FreshProcess
    /\ UNCHANGED <<file, overwrite, fixPublicKeys>>

\* the user runs: import <file> [--overwrite] [--fix-public-keys]
BeginImport ==
    /\ pc \in {"shell", "exit"}
    /\ \E f \in StoreFiles :
          /\ Len(wallets) + Len(f.records) <= MaxStore
          /\ file' = f
    /\ overwrite' \in BOOLEAN
    /\ fixPublicKeys' \in BOOLEAN
    /\ cmd' = "import"
    /\ pc' = "import"
    /\ FreshProcess
    /\ UNCHANGED <<createCount, createPrefix>>

\* the creation loop of createWallets over the store as loaded; every
\* createWallet call loads the store and saves it when it created a wallet
CreateAll(store, reads, writes) ==
    \E keys \in GeneratedKeys(store, createCount) :
        LET after == createLoop(store, createPrefix, Len(store), 0,
                                createCount, keys)
        IN /\ wallets' = after
           /\ storeReads' = reads + createCount
           /\ storeWrites' = writes + (Len(after) - Len(store))
           /\ storeFile' = (IF writes + (Len(after) - Len(store)) > storeWrites
                            THEN "ok" ELSE storeFile)
           /\ result' = "created"
           /\ pc' = "exit"

\* createWallets from its first line to the prompt, or to its end when the
\* store is empty
CreateProcess ==
    /\ pc = "create"
    /\ cmd = "create"
    /\ IF Len(loadWallets(storeFile, wallets)) > 0
       THEN /\ pc' = "createPrompt"
            /\ storeReads' = storeReads + 1
            /\ UNCHANGED <<wallets, storeWrites, result, storeFile>>
       ELSE CreateAll(loadWallets(storeFile, wallets), storeReads + 1,
                      storeWrites)
    /\ UNCHANGED <<cmd, selector, walletIndices, targetWallets, file, overwrite,
                   fixPublicKeys, keepAnswer, processedWallets, diagnostics,
                   mergeTrace, importCount, createCount, createPrefix,
                   mainKey, exitCode>>
    /\ UNCHANGED batchVars
    /\ UNCHANGED collectVars
    /\ UNCHANGED listOutput

\* createWallets from the answer to the prompt to its end: on "no" the store
\* is emptied and createWallets starts again
CreateAnswer ==
    /\ pc = "createPrompt"
    /\ cmd = "create"
    /\ \E keepExisting \in BOOLEAN :
          /\ keepAnswer' = (IF keepExisting THEN "keep" ELSE "replace")
          /\ IF keepExisting
             THEN CreateAll(loadWallets(storeFile, wallets), storeReads,
                            storeWrites)
             ELSE CreateAll(<<>>, storeReads + 1, storeWrites + 1)
    /\ UNCHANGED <<cmd, selector, walletIndices, targetWallets, file, overwrite,
                   fixPublicKeys, processedWallets, diagnostics,
                   mergeTrace, importCount, createCount, createPrefix,
                   mainKey, exitCode>>
    /\ UNCHANGED batchVars
    /\ UNCHANGED collectVars
    /\ UNCHANGED listOutput

NextStore ==
    \/ BeginCreate
    \/ CreateProcess
    \/ CreateAnswer
    \/ BeginImport
    \/ ImportProcess
    \/ ImportAnswer

SpecStore == InitStore /\ [][NextStore]_vars

(* Name uniqueness *)
NamesDistinct(list) ==
    \A h, k \in DOMAIN list : h # k => list[h].name # list[k].name

\* C15: after any sequence of create and import commands from an empty
\* store, with any answer to the keep/delete prompt and any overwrite setting,
\* no two stored records share a name.
C15_StoredNamesDistinct == NamesDistinct(wallets)

(* ------------------------------------------------------------------ *)
(* The send and collect commands from the command line to their end    *)
(* ------------------------------------------------------------------ *)
RunCommands == Commands \ {"balance"}
PerWalletCommands == {"send-sol", "send-token", "collect-sol", "collect-token"}
MainKeys == {"ok", "missing", "undecodable"}

RunSelectors ==
    {Absent, Str(<<"1">>), Str(<<"2", "-", "3">>), Str(<<"0">>)}

\* balances of the collect-sol runs: empty, at the threshold, well above it
RunRent == 890880
RunBalances == {0, RunRent + transferFee, 10 * 1000000 + RunRent + transferFee + 1}

InitRun ==
    /\ cmd \in RunCommands
    /\ mainKey \in MainKeys
    /\ exitCode = -1
    /\ storeReads = 0
    /\ selector \in RunSelectors
    /\ wallets \in Stores
    /\ walletIndices = <<>>
    /\ targetWallets = <<>>
    /\ pc = "cli"
    /\ result = "none"
    /\ leaveAmount = 0
    /\ rentExemptBalance = (IF cmd = "collect-sol" THEN RunRent ELSE 0)
    /\ balances \in (IF cmd = "collect-sol"
                     THEN [DOMAIN wallets -> RunBalances] ELSE {<<>>})
    /\ walletPos = 0 /\ collectLog = <<>> /\ mainReceived = 0
    /\ BatchIdle
    /\ ImportIdle
    /\ FileIdle

\* from the target selection to the loop: balance and the per-wallet commands
\* enter their for-of loop, the token ones after resolving the main wallet's own token
\* account (awaited outside any try block); the batched commands go on to
\* build their batches
EnterLoop ==
    /\ pc = "selected"
    /\ cmd \in Commands
    /\ IF cmd \in {"send-to-all-sol", "send-to-all-token"}
       THEN /\ kind' = (IF cmd = "send-to-all-sol" THEN "sol" ELSE "token")
            /\ pc' = "start"
            /\ UNCHANGED <<walletPos, result>>
       ELSE /\ UNCHANGED kind
            /\ IF cmd \in {"send-sol", "collect-sol", "balance"}
               THEN /\ pc' = (IF cmd = "collect-sol" THEN "collect"
                                                     ELSE "perWallet")
                    /\ walletPos' = 1
                    /\ UNCHANGED result
               ELSE \E ok \in BOOLEAN :
                       /\ result' = commandPromise(ok, result)
                       /\ pc' = afterMainAccount(ok, "perWallet")
                       /\ walletPos' = (IF pc' = "perWallet" THEN 1
                                                             ELSE walletPos)
    /\ UNCHANGED <<targetWallets, walletBatches, batchIndex, j,
                   destinationAccounts, resolved, issued, pending, awaiting,
                   attempts, submissions, outcomes, leaveAmount,
                   rentExemptBalance, balances, collectLog, mainReceived>>
    /\ UNCHANGED <<cmd, selector, wallets, walletIndices>>
    /\ UNCHANGED importVars
    /\ UNCHANGED envVars
    /\ UNCHANGED fileVars

\* the calls of one iteration that can throw
PerWalletFaults(c) ==
    CASE c = "send-sol" -> {"none", "key", "send"}
      [] c = "send-token" -> {"none", "key", "resolve", "send"}
      [] c = "collect-token" -> {"none", "key", "accounts", "send"}
      [] c = "balance" -> {"none", "key", "balance"}

\* what getParsedTokenAccountsByOwner finds for a source wallet
Holdings == {"noAccount", "zero", "positive"}

\* what one iteration reports
perWalletStatus(c, fault, holding) ==
    IF c = "collect-token"
    THEN IF fault \in {"key", "accounts"} THEN "error"
         ELSE IF holding # "positive" THEN "skipped"
         ELSE IF fault = "send" THEN "error"
         ELSE "collected"
    ELSE IF fault # "none" THEN "error"
    ELSE IF c = "balance" THEN "shown"
    ELSE "sent"

\* one iteration of the for-of loop of getWalletBalances, sendSol, sendToken
\* or collectTokens:
\* the whole try block and its catch
WalletStep ==
    /\ pc = "perWallet"
    /\ walletPos <= Len(targetWallets)
    /\ \E fault \in PerWalletFaults(cmd), holding \in Holdings :
          LET status == perWalletStatus(cmd, fault, holding)
          IN /\ collectLog' = Append(collectLog,
                    Entry(targetWallets[walletPos].name, status, "none", -1, 0))
             /\ walletPos' = NextPos(walletPos, status, Len(targetWallets))
    /\ UNCHANGED <<targetWallets, pc, leaveAmount, rentExemptBalance, balances,
                   mainReceived>>
    /\ UNCHANGED cliVars
    /\ UNCHANGED batchVars
    /\ UNCHANGED importVars
    /\ UNCHANGED envVars
    /\ UNCHANGED fileVars

\* the loop has gone through every target wallet
WalletLoopExit ==
    /\ pc = "perWallet"
    /\ walletPos > Len(targetWallets)
    /\ pc' = "done"
    /\ UNCHANGED targetWallets
    /\ UNCHANGED cliVars
    /\ UNCHANGED batchVars
    /\ UNCHANGED collectVars
    /\ UNCHANGED importVars
    /\ UNCHANGED envVars
    /\ UNCHANGED fileVars

NextRun ==
    \/ ParseSelector
    \/ CommandPrologue
    \/ EnterLoop
    \/ WalletStep
    \/ WalletLoopExit
    \/ CollectWallet
    \/ CollectExit
    \/ NextBatch

SpecRun == InitRun /\ [][NextRun]_vars

(* Per-wallet outcomes *)
Statuses(log) == [k \in DOMAIN log |-> log[k].status]

NothingSent ==
    /\ collectLog = <<>> /\ walletPos = 0 /\ mainReceived = 0
    /\ kind = "none" /\ walletBatches = <<>> /\ attempts = <<>>
    /\ submissions = <<>> /\ resolved = {} /\ issued = {} /\ pending = {}
    /\ outcomes = <<>>

\* C20: when the main wallet secret is missing or cannot be decoded, every
\* send-* and collect-* command ends the process with a failure exit at once:
\* the store has not been read, no network call made, nothing submitted.
C20_BadMainKeyExitsBeforeAnything ==
    (cmd \in RunCommands /\ mainKey # "ok") =>
        /\ pc \in {"cli", "prologue", "exited"}
        /\ storeReads = 0
        /\ targetWallets = <<>>
        /\ NothingSent
        /\ pc = "exited" <=> exitCode = 1
        /\ pc # "exited" => exitCode = -1

\* a command has ended on a key that is set but does not decode, with wallets
\* in the store
C20_Witness ==
    /\ cmd \in RunCommands /\ mainKey = "undecodable" /\ pc = "exited"
    /\ exitCode = 1 /\ Len(wallets) > 0

(* Balance left behind by collect-sol *)
\* C26: collect-sol never leaves a wallet with a non-zero balance below the
\* rent-exempt minimum: whenever a withdrawal is planned and the fee charged is
\* the fee estimate, balance - withdrawn amount - fee is 0 or at least the
\* rent-exempt minimum, for every reserve >= 0.
C26_RemainderZeroOrRentExempt ==
    \A i \in DOMAIN collectLog :
        LET e == collectLog[i]
            remaining == e.balance - e.amount - transferFee
        IN e.plan = "withdraw" =>
              (remaining = 0 \/ remaining >= rentExemptBalance)

(* Positions under an import merge *)
\* the trace positions, ascending, of the incoming records that were appended
AppendedAt(t) ==
    SortedSeqOfSet({i \in DOMAIN t : Len(t[i].after) = Len(t[i].before) + 1})

\* C27: an import merge with the existing wallets kept never removes or
\* reorders records, overwrite on or off: the merged store has the length of
\* the existing one plus the number of appended records, every existing
\* position holds its original record or the incoming record that overwrote
\* it in place, and the appended records follow the existing ones in incoming
\* order.
C27_MergeKeepsPositions ==
    [][Merges =>
          LET t == mergeTrace'
              n == Len(wallets)
              app == AppendedAt(t)
          IN /\ \A i \in DOMAIN t :
                   /\ Len(t[i].after) \in {Len(t[i].before), Len(t[i].before) + 1}
                   /\ \A h \in DOMAIN t[i].before :
                         t[i].after[h] \in {t[i].before[h], t[i].incoming}
                   /\ Len(t[i].after) > Len(t[i].before) =>
                         t[i].after[Len(t[i].after)] = t[i].incoming
             /\ Len(wallets') = n + Len(app)
             /\ \A h \in 1..n :
                   \/ wallets'[h] = wallets[h]
                   \/ /\ overwrite
                      /\ \E i \in DOMAIN t : wallets'[h] = t[i].incoming
             /\ \A k \in DOMAIN app :
                   \/ wallets'[n + k] = t[app[k]].incoming
                   \/ /\ overwrite
                      /\ \E i \in DOMAIN t :
                            i > app[k] /\ wallets'[n + k] = t[i].incoming]_vars

\* overwrite on, two existing wallets: the first was overwritten in place, the
\* second is where it was, and one record was appended behind them
C27_Witness ==
    /\ result = "imported" /\ overwrite /\ keepAnswer = "keep"
    /\ Len(mergeTrace) = 2 /\ Len(mergeTrace[1].before) = 2 /\ Len(wallets) = 3
    /\ mergeTrace[1].action \in {"overwriteName", "overwriteKey"}
    /\ wallets[1] = mergeTrace[1].incoming
    /\ wallets[1] # mergeTrace[1].before[1]
    /\ wallets[2] = mergeTrace[1].before[2]
    /\ wallets[3] = mergeTrace[2].incoming

(* Imports that bring nothing *)
\* the import is at its first line, with nothing done yet
ImportStarts == cmd = "import" /\ pc = "import"

\* C28: an import whose file is unreadable, is not a JSON array, or holds no
\* record that passes validation leaves the wallet store unchanged and never
\* asks the keep/delete question.
C28_EmptyImportLeavesStore ==
    [][(ImportStarts /\ (file.kind # "array" \/ processedWallets' = <<>>)) =>
          /\ wallets' = wallets
          /\ storeWrites' = storeWrites
          /\ pc' = "exit"
          /\ keepAnswer' = "none"
          /\ result' \in {"error", "notArray", "noValid"}]_vars

\* a non-empty store, and a file of two records none of which was accepted
C28_Witness ==
    /\ cmd = "import" /\ pc = "exit" /\ result = "noValid"
    /\ Len(wallets) > 0 /\ Len(file.records) = 2
    /\ storeWrites = 0 /\ keepAnswer = "none"

(* Outstanding network calls *)
\* the network calls started and neither completed nor failed: the un-awaited
\* transfers, the awaited batch transaction, the awaited account resolution
Outstanding ==
    Cardinality(pending)
    + (IF awaiting # -1 THEN 1 ELSE 0)
    + (IF pc = "resolve" THEN 1 ELSE 0)

\* C22: during any command, send-to-all-token included, at most one network
\* call is outstanding at a time: each call is started only after the previous
\* one has completed or failed.
C22_AtMostOneCallOutstanding == Outstanding <= 1

(* Account resolution failures *)
\* batch b (from 1) was reported while the account of one of its wallets was
\* never resolved: its resolution loop threw
ResolutionFailed(b) ==
    /\ \E i \in DOMAIN outcomes : outcomes[i].batch = b - 1
    /\ ~(Range(walletBatches[b]) \subseteq resolved)

\* C29: in send-to-all-token, when resolving the receiving account of one
\* wallet of a batch fails, no transfer is issued for any wallet of that batch
\* and the batch is reported failed as a whole, while the batches before and
\* after it are processed normally: when the run has ended every other batch
\* has been attempted and reported once.
C29_ResolutionFailureFailsOnlyItsBatch ==
    kind = "token" =>
        \A b \in DOMAIN walletBatches :
            ResolutionFailed(b) =>
                /\ Range(walletBatches[b]) \cap issued = {}
                /\ submissions[b] = 0
                /\ \A i \in DOMAIN outcomes :
                      outcomes[i].batch = b - 1 => outcomes[i].status = "error"
                /\ pc \in {"done", "crashed"} =>
                      \A c \in DOMAIN walletBatches :
                          /\ attempts[c] = 1
                          /\ Cardinality({i \in DOMAIN outcomes :
                                            outcomes[i].batch = c - 1}) = 1

(* Failure to resolve the main wallet's token account *)
NothingProcessed ==
    /\ collectLog = <<>> /\ mainReceived = 0
    /\ walletBatches = <<>> /\ attempts = <<>> /\ submissions = <<>>
    /\ outcomes = <<>> /\ resolved = {} /\ issued = {} /\ pending = {}
    /\ awaiting = -1

\* C30: in send-token, send-to-all-token and collect-token a failure to
\* resolve the main wallet's own token account is outside any per-wallet or
\* per-batch recovery: the command aborts before any target wallet or batch is
\* processed, no transfer is issued and no outcome is reported.
C30_MainAccountFailureAborts ==
    result = "rejected" =>
        /\ cmd \in {"send-token", "send-to-all-token", "collect-token"}
        /\ pc = "aborted"
        /\ walletPos = 0
        /\ NothingProcessed

\* send-to-all-token over three targets has ended on that failure
C30_Witness ==
    /\ cmd = "send-to-all-token" /\ result = "rejected" /\ pc = "aborted"
    /\ Len(targetWallets) = 3

(* create *)
\* a create step that runs the creation loop to its end
Creates == cmd = "create" /\ result # "created" /\ result' = "created"

\* C24: create with count N on an empty or kept store of k records appends
\* exactly N new records, named prefix(k+1), ..., prefix(k+N) in that order, so
\* that the store holds k+N records afterwards; the sequential suffix never
\* collides with a name already in the store.
C24_CreateAppendsNumberedRecords ==
    [][(Creates /\ keepAnswer' # "replace") =>
          LET k == Len(wallets)
          IN /\ Len(wallets') = k + createCount
             /\ \A i \in 1..createCount :
                   /\ wallets'[k + i].name = Name(createPrefix, k + i)
                   /\ \A h \in 1..k :
                         wallets[h].name # Name(createPrefix, k + i)]_vars

\* C25: create on a non-empty store asks once whether to keep the existing
\* wallets, and does not ask on an empty one; on keep every existing record
\* stays unchanged at its position and the new records come after them; on
\* decline the store afterwards holds only the newly created records,
\* prefix1..prefixN; a create step changes the store in no other way.
C25_CreateDestroysOnlyOnDecline ==
    [][(cmd = "create" /\ cmd' = "create") =>
          IF Creates
          THEN /\ (pc = "createPrompt") <=> (Len(wallets) > 0)
               /\ (pc = "createPrompt") <=> (keepAnswer' # "none")
               /\ keepAnswer' # "replace" =>
                     /\ Len(wallets') >= Len(wallets)
                     /\ \A h \in DOMAIN wallets : wallets'[h] = wallets[h]
                     /\ \A h \in (Len(wallets) + 1)..Len(wallets') :
                           /\ wallets'[h].name.prefix = createPrefix
                           /\ \A g \in DOMAIN wallets :
                                 wallets[g].name # wallets'[h].name
               /\ keepAnswer' = "replace" =>
                     /\ Len(wallets') = createCount
                     /\ \A i \in 1..createCount :
                           wallets'[i].name = Name(createPrefix, i)
          ELSE /\ wallets' = wallets
               /\ keepAnswer' = "none"]_vars

\* one wallet was kept and two were created behind it
C25_Witness ==
    /\ cmd = "create" /\ result = "created" /\ keepAnswer = "keep"
    /\ createCount = 2 /\ Len(wallets) = 3
    /\ wallets[1].name.prefix # createPrefix
    /\ wallets[2].name = Name(createPrefix, 2)
    /\ wallets[3].name = Name(createPrefix, 3)

-----------------------------------------------------------------------------
(* The start of a process and the store file: the lines the module runs    *)
(* before any command, the list command, and one process of any command    *)
(* over a store file that is well formed, missing or not parseable         *)

FileStates == {"ok", "missing", "corrupt"}

AllCommands == Commands \cup {"list", "create", "import"}

\* variant: the file is rewritten at every start
initialiseStore_Always(fileState, content) ==
    [state |-> "ok", content |-> <<>>, written |-> TRUE]

\* "Initialize wallets file if it doesn't exist": a missing file is written
\* as the empty array, an existing one is left as it is
initialiseStore(fileState, content) ==
    IF fileState = "missing"
    THEN [state |-> "ok", content |-> <<>>, written |-> TRUE]
    ELSE [state |-> fileState, content |-> content, written |-> FALSE]

\* where commander dispatches the command
entryOf(c) ==
    CASE c = "list" -> "list"
      [] c = "create" -> "create"
      [] c = "import" -> "import"
      [] OTHER -> "cli"

\* the top-level statements of the module, run by every process before its
\* command
ModuleLoad ==
    /\ pc = "boot"
    /\ LET started == initialiseStore(storeFile, wallets)
       IN /\ storeFile' = started.state
          /\ wallets' = started.content
          /\ storeWrites' = storeWrites + (IF started.written THEN 1 ELSE 0)
    /\ pc' = entryOf(cmd)
    /\ UNCHANGED <<cmd, selector, walletIndices, result, targetWallets,
                   listOutput>>
    /\ UNCHANGED <<file, overwrite, fixPublicKeys, keepAnswer, processedWallets,
                   diagnostics, mergeTrace, importCount, createCount,
                   createPrefix>>
    /\ UNCHANGED batchVars
    /\ UNCHANGED collectVars
    /\ UNCHANGED envVars

\* the line list prints for the wallet at a position of the store
listLine(store, i) ==
    [index |-> i, name |-> store[i].name, publicKey |-> store[i].publicKey]

\* what listWallets prints for a loaded store
listing(store) ==
    IF Len(store) = 0
    THEN [found |-> FALSE, lines |-> <<>>]
    ELSE [found |-> TRUE, lines |-> [i \in DOMAIN store |-> listLine(store, i)]]

\* listWallets, whole
ListWallets ==
    /\ pc = "list"
    /\ cmd = "list"
    /\ storeReads' = storeReads + 1
    /\ LET printed == listing(loadWallets(storeFile, wallets))
       IN /\ listOutput' = Append(listOutput, printed)
          /\ result' = (IF printed.found THEN "listed" ELSE "noWallets")
    /\ pc' = "exit"
    /\ UNCHANGED <<cmd, selector, wallets, walletIndices, targetWallets,
                   mainKey, exitCode, storeFile>>
    /\ UNCHANGED importVars
    /\ UNCHANGED batchVars
    /\ UNCHANGED collectVars

namesOf(store) == {store[i].name : i \in DOMAIN store}

InitLoad ==
    /\ cmd \in AllCommands
    /\ pc = "boot"
    /\ result = "none"
    /\ storeFile \in FileStates
    /\ wallets \in (IF storeFile = "missing" THEN {<<>>} ELSE WalletStores)
    /\ mainKey \in MainKeys
    /\ exitCode = -1
    /\ storeReads = 0
    /\ selector \in (IF cmd \in Commands THEN RunSelectors ELSE {Absent})
    /\ walletIndices = <<>>
    /\ targetWallets = <<>>
    /\ leaveAmount = 0
    /\ rentExemptBalance = (IF cmd = "collect-sol" THEN RunRent ELSE 0)
    /\ balances \in (IF cmd = "collect-sol"
                     THEN [namesOf(loadWallets(storeFile, wallets)) ->
                               RunBalances]
                     ELSE {<<>>})
    /\ walletPos = 0 /\ collectLog = <<>> /\ mainReceived = 0
    /\ BatchIdle
    /\ file \in (IF cmd = "import" THEN StoreFiles
                                   ELSE {[kind |-> "none", records |-> <<>>]})
    /\ overwrite \in (IF cmd = "import" THEN BOOLEAN ELSE {FALSE})
    /\ fixPublicKeys \in (IF cmd = "import" THEN BOOLEAN ELSE {FALSE})
    /\ createCount \in (IF cmd = "create" THEN 1..MaxCreate ELSE {0})
    /\ createPrefix \in (IF cmd = "create" THEN CreatePrefixes ELSE {""})
    /\ cmd = "create" =>
          GeneratedKeys(loadWallets(storeFile, wallets), createCount) # {}
    /\ keepAnswer = "none"
    /\ processedWallets = <<>> /\ diagnostics = <<>> /\ mergeTrace = <<>>
    /\ importCount = 0 /\ storeWrites = 0
    /\ listOutput = NotListed

NextLoad ==
    \/ ModuleLoad
    \/ ListWallets
    \/ NextRun
    \/ CreateProcess
    \/ CreateAnswer
    \/ ImportProcess
    \/ ImportAnswer

SpecLoad == InitLoad /\ [][NextLoad]_vars

(* Unusable store file *)
\* the store file holds no wallet a command can load: it is the empty array,
\* or it is missing or not parseable
EffectivelyEmpty == storeFile # "ok" \/ Len(wallets) = 0

NoWalletsListed == [found |-> FALSE, lines |-> <<>>]

NumberedFromOne(store, prefix, n) ==
    /\ Len(store) = n
    /\ \A i \in 1..n : store[i].name = Name(prefix, i)

\* what each command does with a store that is the empty array, required of
\* every store that is effectively empty
ProceedsAsOnEmptyStore ==
    /\ pc = "boot" =>
          loadWallets(storeFile', wallets') =
              (IF storeFile = "ok" THEN wallets ELSE <<>>)
    /\ (EffectivelyEmpty /\ pc = "list") =>
          /\ listOutput' = Append(listOutput, NoWalletsListed)
          /\ result' = "noWallets" /\ pc' = "exit" /\ exitCode' = -1
    /\ (EffectivelyEmpty /\ pc = "prologue") =>
          IF cmd # "balance" /\ ~MainWalletLoads(mainKey)
          THEN exitCode' = 1 /\ pc' = "exited"
          ELSE result' = "noWallets" /\ pc' = "exit" /\ exitCode' = -1
    /\ (EffectivelyEmpty /\ pc = "create") =>
          /\ pc' = "exit" /\ result' = "created" /\ keepAnswer' = "none"
          /\ storeFile' = "ok"
          /\ NumberedFromOne(wallets', createPrefix, createCount)
    /\ (EffectivelyEmpty /\ pc = "import") =>
          /\ pc' = "exit" /\ keepAnswer' = "none"
          /\ IF file.kind = "array" /\ ~nothingToImport(processedWallets')
             THEN /\ result' = "imported"
                  /\ storeFile' = "ok"
                  /\ wallets' = mergedAfter(<<>>,
                         mergeLoop(<<>>, processedWallets', overwrite))
             ELSE UNCHANGED <<wallets, storeFile, storeWrites>>

\* C21: when the store file is missing or cannot be parsed, loading yields the
\* empty list and every command (list, balance, create, import, send-*,
\* collect-*) goes on exactly as on a store that is the empty array; the only
\* exit with code 1 is the one for the main wallet's key.
C21_UnusableStoreIsEmptyStore == [][ProceedsAsOnEmptyStore]_vars

\* a send-sol process found a store file it could not parse, records still
\* legible in it, and ended with 'No wallets found'
C21_Witness ==
    /\ cmd = "send-sol" /\ storeFile = "corrupt" /\ Len(wallets) = 2
    /\ result = "noWallets" /\ pc = "exit" /\ exitCode = -1

-----------------------------------------------------------------------------
(* Sessions of the commands that only read the store: list, balance, the   *)
(* sends and the collects, one process after the other over the same file  *)

MaxListRuns == 2

ReadCommands == Commands \cup {"list"}

Ended == {"shell", "exit", "exited", "done", "aborted", "crashed"}

\* the stores of the sessions: empty, one wallet, two wallets
ReadStores ==
    {SubSeq(<<Wallet(Name("wallet", 1), fromSecretKey("s1"), Key("base58", "s1")),
              Wallet(Name("wallet", 2), fromSecretKey("s2"), Key("base58", "s2"))>>,
            1, n) : n \in 0..2}

InitRead ==
    /\ cmd = "none"
    /\ pc = "shell"
    /\ result = "none"
    /\ storeFile \in FileStates
    /\ wallets \in (IF storeFile = "missing" THEN {<<>>} ELSE ReadStores)
    /\ mainKey \in MainKeys
    /\ exitCode = -1
    /\ storeReads = 0
    /\ SelectIdle
    /\ leaveAmount = 0
    /\ rentExemptBalance = RunRent
    /\ balances \in [namesOf(loadWallets(storeFile, wallets)) -> RunBalances]
    /\ walletPos = 0 /\ collectLog = <<>> /\ mainReceived = 0
    /\ BatchIdle
    /\ ImportIdle
    /\ listOutput = NotListed

\* the user runs one of the reading commands: a new process, nothing is left
\* of the previous one but the store file, the chain and the terminal
BeginRead ==
    /\ pc \in Ended
    /\ \E c \in ReadCommands :
          /\ c = "list" => Len(listOutput) < MaxListRuns
          /\ cmd' = c
          /\ selector' \in (IF c = "list" THEN {Absent} ELSE RunSelectors)
          /\ leaveAmount' \in (IF c = "collect-sol" THEN LeaveChoices ELSE {0})
    /\ pc' = "boot"
    /\ result' = "none"
    /\ walletIndices' = <<>> /\ targetWallets' = <<>>
    /\ kind' = "none" /\ walletBatches' = <<>> /\ batchIndex' = 0 /\ j' = 0
    /\ destinationAccounts' = <<>> /\ resolved' = {} /\ issued' = {}
    /\ pending' = {} /\ awaiting' = -1 /\ attempts' = <<>>
    /\ submissions' = <<>> /\ outcomes' = <<>>
    /\ walletPos' = 0 /\ collectLog' = <<>> /\ mainReceived' = 0
    /\ exitCode' = -1 /\ storeReads' = 0 /\ storeWrites' = 0
    /\ UNCHANGED <<wallets, storeFile, listOutput, mainKey,
                   rentExemptBalance, balances>>
    /\ UNCHANGED <<file, overwrite, fixPublicKeys, keepAnswer, processedWallets,
                   diagnostics, mergeTrace, importCount, createCount,
                   createPrefix>>

NextRead ==
    \/ BeginRead
    \/ ModuleLoad
    \/ ListWallets
    \/ NextRun

SpecRead == InitRead /\ [][NextRead]_vars

(* Reading commands and the store *)
StoreFileUntouched ==
    /\ wallets' = wallets
    /\ storeFile' = storeFile
    /\ storeWrites' <= storeWrites

\* the one write of a reading command: the start of the process finds no
\* store file and writes the empty array
CreatesMissingFile ==
    /\ pc = "boot" /\ storeFile = "missing"
    /\ storeFile' = "ok" /\ wallets' = <<>>
    /\ storeWrites' = storeWrites + 1

ListRunsAgree == \A a, b \in DOMAIN listOutput : listOutput[a] = listOutput[b]

\* C23 as stated: list, balance and every send-* and collect-* command never
\* write the wallet store; hence two consecutive list runs with no create or
\* import between them print identical output.
C23_ReadingCommandsNeverWrite ==
    [][StoreFileUntouched /\ ListRunsAgree']_vars

\* C23: list, balance and every send-* and collect-* command leave the wallets
\* a load returns as they are, and write the store file in one case only: the
\* process starts with no store file and creates it as the empty array; two
\* list runs with no create or import between them print identical output.
C23_ReadingCommandsKeepWallets ==
    [][/\ loadWallets(storeFile', wallets') = loadWallets(storeFile, wallets)
       /\ StoreFileUntouched \/ CreatesMissingFile
       /\ ListRunsAgree']_vars

\* list printed two wallets, collect-sol --leave 0.000001 then withdrew from
\* one of them, and list printed the same two lines again
C23_Witness ==
    /\ cmd = "list" /\ pc = "exit" /\ storeWrites = 0
    /\ Len(listOutput) = 2 /\ listOutput[1].found
    /\ Len(listOutput[2].lines) = 2
    /\ \E n \in DOMAIN balances : balances[n] = 1000

====
